---- MODULE Spec2Model ----
(***************************************************************************)
(* kevin-middleware: the compiler pool (CompilerManager), the per-compiler *)
(* state machine (ManagedCompiler) and the request flow of the middleware  *)
(* (Kevin.closeCompilersIfNeeded, Kevin.buildConfig, restart-compiler).    *)
(*                                                                         *)
(* webpack is an external collaborator.  A started compiler is modelled by *)
(* what it may do through the interface the code uses: emit its hooks      *)
(* (invalid/run/watchRun, done, failed, watchClose), call the watch        *)
(* handler, and call back every callback handed to watching.close() once   *)
(* the watcher has stopped.                                                *)
(***************************************************************************)
EXTENDS Integers, Sequences, FiniteSets, TLC

VARIABLES
    activeCompilers,  \* CompilerManager.activeCompilers: keys in insertion order
    mc,               \* every ManagedCompiler object ever constructed, by identity
    engine,           \* the webpack side of each compiler: Watching state, call counts
    closeCallbacks,   \* callbacks handed to watching.close() that have not fired yet
    req,              \* the requests: position in their promise chain
    calls,            \* per deferred: the resolve/reject calls made on it, in order
    now,              \* Date.now()
    maxCompilers,     \* Kevin.maxCompilers
    useFrequency,     \* CompilerManager.useFrequency
    ret               \* the last call of a CompilerManager method: its name argument, what it returned

vars == <<activeCompilers, mc, engine, closeCallbacks, req, calls, now,
          maxCompilers, useFrequency, ret>>

----------------------------------------------------------------------------
\* Bounds of the model.
MaxRequests == 3
MaxEngines == 3
MaxMaxCompilers == 2

\* Program constants.
FIRST_BUILD == "first-build"
BUILDING == "building"
ERROR == "error"
DONE == "done"
MS_PER_MINUTE == 60000
FREQUENCY_RANGE == 60
Infinity == 1000000000

statuses == <<FIRST_BUILD, BUILDING, ERROR, DONE>>

NULL == "null"
ConfigNames == {"alpha", "beta", "gamma"}
ErrorValues == {"e3"}
BuildErrorLists == {<<"e1", "e2">>}
CLOSED_MESSAGE == "The compiler was closed before the request could be completed"
SortImpls == {"timsort", "insertion"}

Range(s) == {s[i] : i \in DOMAIN s}

----------------------------------------------------------------------------
\* ManagedCompiler

\* err.stack of an Error object
Stack(err) == <<"stack", err>>

\* a setCurrentErrors that stores nothing
setCurrentErrors_drop(c, errors) == c

\* this.lastErrors = errors.map((err) => err.stack)
setCurrentErrors(c, errors) ==
    [c EXCEPT !.lastErrors = [i \in DOMAIN errors |-> Stack(errors[i])]]

\* a test that lets every value through
ValidStatus_any(status) == TRUE

\* the statuses.includes(status) test of setStatus
ValidStatus(status) == status \in Range(statuses)

\* setStatus(status, errors) for a valid status (an invalid one throws)
setStatus(c, status, errors) ==
    setCurrentErrors([c EXCEPT !.status = status],
                     SelectSeq(errors, LAMBDA e : e # NULL))

\* new ManagedCompiler(name, compiler, watching, status, pinned)
ManagedCompiler(name, status, pinned, t) ==
    [name |-> name, status |-> status, lastErrors |-> <<>>,
     callbacks |-> <<>>, frequencyChecks |-> <<>>, numberOfUses |-> 0,
     lastUse |-> t, pinned |-> pinned]

\* a handler without the first-build special case
newCompilationHandler_always(c) == setStatus(c, BUILDING, <<>>)

newCompilationHandler(c) ==
    IF c.status # FIRST_BUILD THEN setStatus(c, BUILDING, <<>>) ELSE c

\* an addCallback that does not store the deferred
addCallback_drop(c, deferred) == c

addCallback(c, deferred) == [c EXCEPT !.callbacks = Append(@, deferred)]

\* a clearCallbacks that forgets to empty the list
clearCallbacks_keep(c) == c

clearCallbacks(c) == [c EXCEPT !.callbacks = <<>>]

\* a forEach that starts at index 1 and misses the first deferred
CallEach_skipFirst(cl, cbs, call) ==
    IF cbs = <<>> THEN cl
    ELSE [r \in DOMAIN cl |->
             IF \E i \in 2..Len(cbs) : cbs[i] = r THEN Append(cl[r], call) ELSE cl[r]]

\* the forEach of resolveCallbacks / rejectCallbacks: one call on every
\* deferred of the list, in order
RECURSIVE CallEach(_, _, _)
CallEach(cl, cbs, call) ==
    IF cbs = <<>> THEN cl
    ELSE CallEach([cl EXCEPT ![Head(cbs)] = Append(@, call)], Tail(cbs), call)

ResolveCall(response) == [how |-> "resolve", type |-> "boolean", val |-> <<response>>]
RejectCall(type, val) == [how |-> "reject", type |-> type, val |-> val]

\* a logFrequencyUsage that forgets to count the use
logFrequencyUsage_noCount(c, t) ==
    [c EXCEPT !.frequencyChecks = Append(@, t), !.lastUse = t]

logFrequencyUsage(c, t) ==
    [c EXCEPT !.frequencyChecks = Append(@, t), !.lastUse = t,
              !.numberOfUses = @ + 1]

\* the pruning loop of getFrequency: while (frequencyChecks[1] < window) shift()
RECURSIVE PruneFrequencyChecks(_, _)
PruneFrequencyChecks(fc, frequencyWindow) ==
    IF Len(fc) >= 2 /\ fc[2] < frequencyWindow
    THEN PruneFrequencyChecks(Tail(fc), frequencyWindow)
    ELSE fc

\* the object after a getFrequency() call
AfterGetFrequency(c, t) ==
    IF c.pinned \/ Len(c.frequencyChecks) = 0 THEN c
    ELSE [c EXCEPT !.frequencyChecks =
              PruneFrequencyChecks(@, t - FREQUENCY_RANGE * MS_PER_MINUTE)]

\* getFrequency(), in units of 1/FREQUENCY_RANGE uses per minute
getFrequency(c, t) ==
    IF c.pinned THEN Infinity
    ELSE Len(AfterGetFrequency(c, t).frequencyChecks)

\* weights that rise again in the last tier
FrecencyWeight_rising(timeSinceUse) ==
    IF timeSinceUse < MS_PER_MINUTE THEN 16
    ELSE IF timeSinceUse < 5 * MS_PER_MINUTE THEN 8
    ELSE IF timeSinceUse < 30 * MS_PER_MINUTE THEN 2
    ELSE 4

\* the weight of getFrecency for the time since the last use, in units of
\* 1/4: 4, 2, 1/2 and 1/4
FrecencyWeight(timeSinceUse) ==
    IF timeSinceUse < MS_PER_MINUTE THEN 16
    ELSE IF timeSinceUse < 5 * MS_PER_MINUTE THEN 8
    ELSE IF timeSinceUse < 30 * MS_PER_MINUTE THEN 2
    ELSE 1

\* a getFrecency without the pinned case
getFrecency_noPin(c, t) ==
    LET timeSinceUse == t - c.lastUse IN
    IF timeSinceUse < MS_PER_MINUTE THEN c.numberOfUses * 16
    ELSE IF timeSinceUse < 5 * MS_PER_MINUTE THEN c.numberOfUses * 8
    ELSE IF timeSinceUse < 30 * MS_PER_MINUTE THEN c.numberOfUses * 2
    ELSE c.numberOfUses

\* getFrecency(), in units of 1/4
getFrecency(c, t) ==
    IF c.pinned THEN Infinity
    ELSE c.numberOfUses * FrecencyWeight(t - c.lastUse)

\* an invalidate that keeps the first-build special case of the hooks
invalidate_keepFirstBuild(c) ==
    IF c.status # FIRST_BUILD THEN setStatus(c, BUILDING, <<>>) ELSE c

\* invalidate(): the status part (watching.invalidate() is counted in engine)
invalidate(c) == setStatus(c, BUILDING, <<>>)

----------------------------------------------------------------------------
\* CompilerManager

KeyIndex(ac, name) ==
    IF \E i \in DOMAIN ac : ac[i].name = name
    THEN CHOOSE i \in DOMAIN ac : ac[i].name = name
    ELSE 0

isCompilerActive(ac, name) == KeyIndex(ac, name) # 0

countActiveCompilers(ac) == Len(ac)

\* this.activeCompilers[name]
Lookup(ac, name) == ac[KeyIndex(ac, name)].id

\* this.activeCompilers[name] = <object id>
SetKey(ac, name, id) ==
    IF isCompilerActive(ac, name)
    THEN [ac EXCEPT ![KeyIndex(ac, name)] = [name |-> name, id |-> id]]
    ELSE Append(ac, [name |-> name, id |-> id])

\* delete this.activeCompilers[name]
DeleteKey(ac, name) == SelectSeq(ac, LAMBDA e : e.name # name)

\* a noteCompilerUsage that records nothing
noteCompilerUsage_skip(ac, m, name, t) == m

\* noteCompilerUsage(name) on the objects m
noteCompilerUsage(ac, m, name, t) ==
    IF ~isCompilerActive(ac, name) THEN m
    ELSE LET id == Lookup(ac, name) IN
         IF m[id].pinned THEN m
         ELSE [m EXCEPT ![id] = logFrequencyUsage(@, t)]

\* the score the comparator of getLeastUsedCompiler reads
Score(c, t, uf) == IF uf THEN getFrequency(c, t) ELSE getFrecency(c, t)

\* the list without the filter on pinned
Unpinned_all(ac, m) == ac

\* Object.values(activeCompilers).filter((compiler) => !compiler.pinned)
Unpinned(ac, m) == SelectSeq(ac, LAMBDA e : ~m[e.id].pinned)

\* The comparator returns a boolean (true when c1 scores above c2), never a
\* negative number, so it is not a consistent comparator and the order that
\* Array.prototype.sort produces is implementation-defined.  Two engines are
\* modelled: V8's TimSort, which sees one ascending run and moves nothing,
\* and a stable insertion sort that shifts on a positive result and so
\* sorts ascending by score.
SortedFirst(list, m, t, uf, impl) ==
    IF impl = "timsort" THEN list[1]
    ELSE LET best == CHOOSE i \in DOMAIN list :
                 /\ \A j \in DOMAIN list :
                        Score(m[list[i].id], t, uf) <= Score(m[list[j].id], t, uf)
                 /\ \A j \in 1..(i - 1) :
                        Score(m[list[j].id], t, uf) > Score(m[list[i].id], t, uf)
         IN list[best]

\* getLeastUsedCompiler(): a name, NULL, or "TypeError" when [0] is undefined
getLeastUsedCompiler(ac, m, t, uf, impl) ==
    IF countActiveCompilers(ac) = 0 THEN NULL
    ELSE IF Unpinned(ac, m) = <<>> THEN "TypeError"
    ELSE SortedFirst(Unpinned(ac, m), m, t, uf, impl).name

\* the objects after getLeastUsedCompiler(): with useFrequency the comparator
\* calls getFrequency (which prunes) on every element it compares
AfterLeastUsed(ac, m, t, uf) ==
    IF uf /\ Len(Unpinned(ac, m)) >= 2
    THEN [id \in DOMAIN m |->
             IF \E i \in DOMAIN ac : ac[i].id = id
             THEN AfterGetFrequency(m[id], t) ELSE m[id]]
    ELSE m

\* the objects after getInfoForCompiler(name): it calls getFrequency()
AfterInfoFor(ac, m, name, t) ==
    IF ~isCompilerActive(ac, name) THEN m
    ELSE [m EXCEPT ![Lookup(ac, name)] = AfterGetFrequency(@, t)]

----------------------------------------------------------------------------
\* The environment: the clock and the requests

\* instants the clock is read at; they straddle the frequency window (60
\* minutes) and the frecency tiers (1, 5 and 30 minutes); the clock may jump
\* to any later instant of the list
TimePoints == <<0, 61 * MS_PER_MINUTE, MS_PER_MINUTE, 5 * MS_PER_MINUTE,
                30 * MS_PER_MINUTE, 60 * MS_PER_MINUTE>>

TimeAt(i) ==
    IF i <= Len(TimePoints) THEN TimePoints[i]
    ELSE TimePoints[Len(TimePoints)] + (i - Len(TimePoints)) * 60 * MS_PER_MINUTE

NoRet == [op |-> "none", val |-> NULL, arg |-> NULL]

NewRequest == [pc |-> "new", kind |-> "none", config |-> NULL, result |-> "none"]

\* a started webpack compiler and its Watching
NewEngine == [watching |-> "open", closeCalls |-> 0, invalidateCalls |-> 0]

\* the promise chain of a request continues once its deferred has been called:
\* the first call decides the outcome (defer, a promise settles once)
Continue(rq, cl) ==
    [r \in DOMAIN rq |->
        IF rq[r].pc = "waiting" /\ cl[r] # <<>>
        THEN [rq[r] EXCEPT !.pc = "done",
                           !.result = IF cl[r][1].how = "resolve"
                                      THEN "serve" ELSE "error"]
        ELSE rq[r]]

Init ==
    /\ activeCompilers = <<>>
    /\ mc = <<>>
    /\ engine = <<>>
    /\ closeCallbacks = {}
    /\ req = [r \in 1..MaxRequests |-> NewRequest]
    /\ calls = [r \in 1..MaxRequests |-> <<>>]
    /\ now = 0
    /\ maxCompilers \in 0..MaxMaxCompilers
    /\ useFrequency = FALSE
    /\ ret = NoRet

Tick(i) ==
    /\ TimeAt(i) > now
    /\ now' = TimeAt(i)
    /\ UNCHANGED <<activeCompilers, mc, engine, closeCallbacks, req, calls,
                   maxCompilers, useFrequency, ret>>

\* watching.close(callback) as the engine sees it
WatchingClose(e) ==
    [e EXCEPT !.closeCalls = @ + 1,
              !.watching = IF @ = "open" THEN "closing" ELSE @]

\* CompilerManager.closeCompiler(name) for an active name; the promise it
\* returns is awaited by request r (0: by a caller outside the middleware)
closeCompiler(r, name) ==
    LET id == Lookup(activeCompilers, name) IN
    /\ engine' = [engine EXCEPT ![id] = WatchingClose(@)]
    /\ closeCallbacks' = closeCallbacks \cup
           {[eng |-> id, name |-> name, req |-> r, call |-> engine[id].closeCalls + 1]}

\* requests are taken in the order of their numbers
IsNext(r) == req[r].pc = "new" /\ \A q \in 1..(r - 1) : req[q].pc # "new"

\* an eviction decision that does not look whether the target is active
NoEvictionNeeded_ignoresActive(maxC, ac, configName) ==
    \/ maxC = 0
    \/ maxC > countActiveCompilers(ac)

\* the two early returns of closeCompilersIfNeeded, each Promise.resolve(null)
NoEvictionNeeded(maxC, ac, configName) ==
    \/ maxC = 0
    \/ isCompilerActive(ac, configName)
    \/ maxC > countActiveCompilers(ac)

\* closeCompilersIfNeeded(maxCompilers, configName) with the taps of the
\* compilerClose hook: replaced is the name a tap writes to
\* options.compilerToEvict, NULL when no tap writes it
closeCompilersIfNeededHooked(r, configName, impl, replaced) ==
    /\ IsNext(r)
    /\ IF NoEvictionNeeded(maxCompilers, activeCompilers, configName)
       THEN /\ req' = [req EXCEPT ![r] = [pc |-> "build", kind |-> "asset",
                                          config |-> configName, result |-> "none"]]
            /\ UNCHANGED <<mc, engine, closeCallbacks>>
       ELSE LET compilerToEvict ==
                    getLeastUsedCompiler(activeCompilers, mc, now, useFrequency, impl)
                m1 == AfterLeastUsed(activeCompilers, mc, now, useFrequency)
                m2 == AfterInfoFor(activeCompilers, m1, compilerToEvict, now)
                options == IF replaced = NULL THEN compilerToEvict ELSE replaced
            IN  IF compilerToEvict = "TypeError"
                THEN /\ req' = [req EXCEPT ![r] = [pc |-> "done", kind |-> "asset",
                                      config |-> configName, result |-> "threw"]]
                     /\ mc' = m1
                     /\ UNCHANGED <<engine, closeCallbacks>>
                ELSE IF ~isCompilerActive(activeCompilers, options)
                THEN /\ req' = [req EXCEPT ![r] = [pc |-> "build", kind |-> "asset",
                                      config |-> configName, result |-> "none"]]
                     /\ mc' = m2
                     /\ UNCHANGED <<engine, closeCallbacks>>
                ELSE /\ closeCompiler(r, options)
                     /\ mc' = m2
                     /\ req' = [req EXCEPT ![r] = [pc |-> "closing", kind |-> "asset",
                                      config |-> configName, result |-> "none"]]
    /\ UNCHANGED <<activeCompilers, calls, now, maxCompilers, useFrequency, ret>>

\* kevinMiddleware, asset path: closeCompilersIfNeeded(maxCompilers, configName)
\* when nothing is tapped on the compilerClose hook
closeCompilersIfNeeded(r, configName, impl) ==
    closeCompilersIfNeededHooked(r, configName, impl, NULL)

\* a buildConfig that invalidates a building compiler as well
KevinBuildConfig_alwaysInvalidates(rq, r) ==
    LET configName == rq[r].config IN
    /\ IF isCompilerActive(activeCompilers, configName)
       THEN LET id == Lookup(activeCompilers, configName)
                m1 == noteCompilerUsage(activeCompilers, mc, configName, now)
                buildState == m1[id].status
            IN  IF buildState = DONE
                THEN /\ req' = [rq EXCEPT ![r].pc = "done", ![r].result = "serve"]
                     /\ mc' = m1
                     /\ UNCHANGED <<activeCompilers, engine>>
                ELSE IF buildState = FIRST_BUILD
                THEN /\ req' = [rq EXCEPT ![r].pc = "done", ![r].result = "overlay"]
                     /\ mc' = m1
                     /\ UNCHANGED <<activeCompilers, engine>>
                ELSE /\ mc' = [m1 EXCEPT ![id] = addCallback(invalidate(@), r)]
                     /\ engine' = [engine EXCEPT ![id].invalidateCalls = @ + 1]
                     /\ req' = [rq EXCEPT ![r].pc = "waiting"]
                     /\ UNCHANGED activeCompilers
       ELSE /\ Len(mc) < MaxEngines
            /\ LET id == Len(mc) + 1
                   ac1 == SetKey(activeCompilers, configName, id)
                   m1 == Append(mc, ManagedCompiler(configName, FIRST_BUILD, FALSE, now))
               IN  /\ activeCompilers' = ac1
                   /\ mc' = noteCompilerUsage(ac1, m1, configName, now)
            /\ engine' = Append(engine, NewEngine)
            /\ req' = [rq EXCEPT ![r].pc = "done", ![r].result = "overlay"]
    /\ UNCHANGED <<closeCallbacks, calls, now, maxCompilers, useFrequency, ret>>

\* Kevin.buildConfig(configName) for a config of this.configs, entered by the
\* request r of rq whose config is configName
KevinBuildConfig(rq, r) ==
    LET configName == rq[r].config IN
    /\ IF isCompilerActive(activeCompilers, configName)
       THEN LET id == Lookup(activeCompilers, configName)
                m1 == noteCompilerUsage(activeCompilers, mc, configName, now)
                buildState == m1[id].status
            IN  IF buildState = DONE
                THEN /\ req' = [rq EXCEPT ![r].pc = "done", ![r].result = "serve"]
                     /\ mc' = m1
                     /\ UNCHANGED <<activeCompilers, engine>>
                ELSE IF buildState = FIRST_BUILD
                THEN /\ req' = [rq EXCEPT ![r].pc = "done", ![r].result = "overlay"]
                     /\ mc' = m1
                     /\ UNCHANGED <<activeCompilers, engine>>
                ELSE /\ mc' = [m1 EXCEPT ![id] =
                            addCallback(IF buildState = ERROR THEN invalidate(@) ELSE @, r)]
                     /\ engine' = IF buildState = ERROR
                                  THEN [engine EXCEPT ![id].invalidateCalls = @ + 1]
                                  ELSE engine
                     /\ req' = [rq EXCEPT ![r].pc = "waiting"]
                     /\ UNCHANGED activeCompilers
       ELSE /\ Len(mc) < MaxEngines
            /\ LET id == Len(mc) + 1
                   ac1 == SetKey(activeCompilers, configName, id)
                   m1 == Append(mc, ManagedCompiler(configName, FIRST_BUILD, FALSE, now))
               IN  /\ activeCompilers' = ac1
                   /\ mc' = noteCompilerUsage(ac1, m1, configName, now)
            /\ engine' = Append(engine, NewEngine)
            /\ req' = [rq EXCEPT ![r].pc = "done", ![r].result = "overlay"]
    /\ UNCHANGED <<closeCallbacks, calls, now, maxCompilers, useFrequency, ret>>

\* Kevin.buildConfig(configName), run from the .then of the request's chain
buildConfig(r) ==
    /\ req[r].pc = "build"
    /\ KevinBuildConfig(req, r)

\* POST restart-compiler?compiler=name[&hard=true]
restartCompiler(r, name, hard) ==
    /\ IsNext(r)
    /\ IF ~isCompilerActive(activeCompilers, name)
       THEN /\ req' = [req EXCEPT ![r] = [pc |-> "done", kind |-> "restart",
                                          config |-> name, result |-> "400"]]
            /\ UNCHANGED <<mc, engine, closeCallbacks>>
       ELSE IF hard
       THEN /\ closeCompiler(r, name)
            /\ req' = [req EXCEPT ![r] = [pc |-> "closing", kind |-> "restart",
                                          config |-> name, result |-> "none"]]
            /\ UNCHANGED mc
       ELSE LET id == Lookup(activeCompilers, name) IN
            /\ mc' = [mc EXCEPT ![id] = invalidate(@)]
            /\ engine' = [engine EXCEPT ![id].invalidateCalls = @ + 1]
            /\ req' = [req EXCEPT ![r] = [pc |-> "done", kind |-> "restart",
                                          config |-> name, result |-> "200"]]
            /\ UNCHANGED closeCallbacks
    /\ UNCHANGED <<activeCompilers, calls, now, maxCompilers, useFrequency, ret>>

\* the callback handed to watching.close() by closeCompiler fires
closeCallback(cb) ==
    /\ cb \in closeCallbacks
    /\ engine[cb.eng].watching = "closed"
    /\ activeCompilers' = DeleteKey(activeCompilers, cb.name)
    /\ closeCallbacks' = closeCallbacks \ {cb}
    /\ req' = IF cb.req \in DOMAIN req THEN [req EXCEPT ![cb.req].pc = "build"] ELSE req
    /\ UNCHANGED <<mc, engine, calls, now, maxCompilers, useFrequency, ret>>

----------------------------------------------------------------------------
\* The hooks a started compiler calls

Running(id) == id \in DOMAIN engine /\ engine[id].watching \in {"open", "closing"}

\* hooks.invalid / hooks.run / hooks.watchRun
hookNewCompilation(id) ==
    /\ Running(id)
    /\ mc' = [mc EXCEPT ![id] = newCompilationHandler(@)]
    /\ UNCHANGED <<activeCompilers, engine, closeCallbacks, req, calls, now,
                   maxCompilers, useFrequency, ret>>

\* a finished build that puts a compiler without errors back to first-build
hookDone_restart(id, errors) ==
    /\ Running(id)
    /\ LET hasErrors == errors # <<>>
           call == IF hasErrors THEN RejectCall("array", errors)
                   ELSE ResolveCall("false")
       IN  /\ mc' = [mc EXCEPT ![id] =
                        clearCallbacks(IF hasErrors THEN setStatus(@, ERROR, errors)
                                       ELSE setStatus(@, FIRST_BUILD, <<>>))]
           /\ calls' = CallEach(calls, mc[id].callbacks, call)
    /\ req' = Continue(req, calls')
    /\ UNCHANGED <<activeCompilers, engine, closeCallbacks, now, maxCompilers,
                   useFrequency, ret>>

\* hooks.done: finishedCompilationHandler(stats)
hookDone(id, errors) ==
    /\ Running(id)
    /\ LET hasErrors == errors # <<>>
           call == IF hasErrors THEN RejectCall("array", errors)
                   ELSE ResolveCall("false")
       IN  /\ mc' = [mc EXCEPT ![id] =
                        clearCallbacks(IF hasErrors THEN setStatus(@, ERROR, errors)
                                       ELSE setStatus(@, DONE, <<>>))]
           /\ calls' = CallEach(calls, mc[id].callbacks, call)
    /\ req' = Continue(req, calls')
    /\ UNCHANGED <<activeCompilers, engine, closeCallbacks, now, maxCompilers,
                   useFrequency, ret>>

\* a failed build that marks every managed compiler as failed and rejects
\* the callbacks of all of them
hookFailed_all(id, error) ==
    /\ Running(id)
    /\ mc' = [j \in DOMAIN mc |-> clearCallbacks(setStatus(mc[j], ERROR, <<error>>))]
    /\ calls' = CallEach(calls, mc[id].callbacks, RejectCall("error", <<error>>))
    /\ req' = Continue(req, calls')
    /\ UNCHANGED <<activeCompilers, engine, closeCallbacks, now, maxCompilers,
                   useFrequency, ret>>

\* hooks.failed: failedCompilation(error)
hookFailed(id, error) ==
    /\ Running(id)
    /\ mc' = [mc EXCEPT ![id] = clearCallbacks(setStatus(@, ERROR, <<error>>))]
    /\ calls' = CallEach(calls, mc[id].callbacks, RejectCall("error", <<error>>))
    /\ req' = Continue(req, calls')
    /\ UNCHANGED <<activeCompilers, engine, closeCallbacks, now, maxCompilers,
                   useFrequency, ret>>

\* a watchClose handler that also marks the compiler as failed
hookWatchClose_setsError(id) ==
    /\ id \in DOMAIN engine
    /\ engine[id].watching = "closing"
    /\ mc' = [mc EXCEPT ![id] = clearCallbacks(setStatus(@, ERROR, <<CLOSED_MESSAGE>>))]
    /\ calls' = CallEach(calls, mc[id].callbacks, RejectCall("error", <<CLOSED_MESSAGE>>))
    /\ req' = Continue(req, calls')
    /\ engine' = [engine EXCEPT ![id].watching = "closed"]
    /\ UNCHANGED <<activeCompilers, closeCallbacks, now, maxCompilers, useFrequency, ret>>

\* hooks.watchClose: closeCompilerHandler(), once the closed watcher has stopped
hookWatchClose(id) ==
    /\ id \in DOMAIN engine
    /\ engine[id].watching = "closing"
    /\ mc' = [mc EXCEPT ![id] = clearCallbacks(@)]
    /\ calls' = CallEach(calls, mc[id].callbacks, RejectCall("error", <<CLOSED_MESSAGE>>))
    /\ req' = Continue(req, calls')
    /\ engine' = [engine EXCEPT ![id].watching = "closed"]
    /\ UNCHANGED <<activeCompilers, closeCallbacks, now, maxCompilers, useFrequency, ret>>

\* the handler given to compiler.watch() is called with an error
watchHandler(id, err) ==
    /\ Running(id)
    /\ LET configName == mc[id].name IN
       mc' = IF isCompilerActive(activeCompilers, configName)
             THEN [mc EXCEPT ![Lookup(activeCompilers, configName)] =
                                 setStatus(@, ERROR, <<err>>)]
             ELSE mc
    /\ UNCHANGED <<activeCompilers, engine, closeCallbacks, req, calls, now,
                   maxCompilers, useFrequency, ret>>

Next ==
    \/ \E r \in DOMAIN req, c \in ConfigNames, impl \in SortImpls :
           closeCompilersIfNeeded(r, c, impl)
    \/ \E r \in DOMAIN req : buildConfig(r)
    \/ \E r \in DOMAIN req, c \in ConfigNames, hard \in BOOLEAN : restartCompiler(r, c, hard)
    \/ \E cb \in closeCallbacks : closeCallback(cb)
    \/ \E id \in 1..MaxEngines : hookNewCompilation(id)
    \/ \E id \in 1..MaxEngines, errors \in BuildErrorLists \cup {<<>>} : hookDone(id, errors)
    \/ \E id \in 1..MaxEngines, e \in ErrorValues : hookFailed(id, e)
    \/ \E id \in 1..MaxEngines : hookWatchClose(id)
    \/ \E id \in 1..MaxEngines, e \in ErrorValues : watchHandler(id, e)

Spec == Init /\ [][Next]_vars

----------------------------------------------------------------------------
\* The CompilerManager driven directly through its methods, as the unit
\* tests and the PublicConfigManager do.

MaxManaged == 1
MaxDeferreds == 2
MaxCloses == 1
MaxInvalidates == 1

\* manageCompiler(name, compiler, watching, status) for a name not yet managed
manageCompiler(name, status) ==
    /\ Len(mc) < MaxManaged
    /\ ~isCompilerActive(activeCompilers, name)
    /\ LET id == Len(mc) + 1
           ac1 == SetKey(activeCompilers, name, id)
       IN  /\ activeCompilers' = ac1
           /\ mc' = noteCompilerUsage(ac1, Append(mc, ManagedCompiler(name, status, FALSE, now)),
                                      name, now)
    /\ engine' = Append(engine, NewEngine)
    /\ ret' = NoRet
    /\ UNCHANGED <<closeCallbacks, req, calls, now, maxCompilers, useFrequency>>

\* addDeferredCallback(name, resolve, reject) with the callbacks of a new
\* deferred r
addDeferredCallback(name, r) ==
    /\ IsNext(r)
    /\ IF ~isCompilerActive(activeCompilers, name)
       THEN /\ calls' = [calls EXCEPT ![r] = Append(@, RejectCall("error", <<"untracked">>))]
            /\ req' = [req EXCEPT ![r] = [pc |-> "done", kind |-> "waiter",
                                          config |-> name, result |-> "error"]]
            /\ UNCHANGED mc
       ELSE /\ mc' = [mc EXCEPT ![Lookup(activeCompilers, name)] = addCallback(@, r)]
            /\ req' = [req EXCEPT ![r] = [pc |-> "waiting", kind |-> "waiter",
                                          config |-> name, result |-> "none"]]
            /\ UNCHANGED calls
    /\ ret' = NoRet
    /\ UNCHANGED <<activeCompilers, engine, closeCallbacks, now, maxCompilers,
                   useFrequency>>

\* PublicConfigManager.closeCompiler(name)
configManagerCloseCompiler(name) ==
    /\ IF isCompilerActive(activeCompilers, name)
       THEN /\ engine[Lookup(activeCompilers, name)].closeCalls < MaxCloses
            /\ closeCompiler(0, name)
            /\ ret' = NoRet
       ELSE /\ ret' = [op |-> "closeCompiler", val |-> NULL, arg |-> name]
            /\ UNCHANGED <<engine, closeCallbacks>>
    /\ UNCHANGED <<activeCompilers, mc, req, calls, now, maxCompilers, useFrequency>>

\* a getStatus that answers done for a name it does not manage
getStatus_unknownDone(ac, m, name) ==
    IF ~isCompilerActive(ac, name) THEN DONE ELSE m[Lookup(ac, name)].status

\* CompilerManager.getStatus(name)
getStatus(ac, m, name) ==
    IF ~isCompilerActive(ac, name) THEN NULL ELSE m[Lookup(ac, name)].status

\* values handed to setStatus: the four statuses and NOT_BUILT, which
\* constants.js exports but the statuses list of setStatus does not hold
NOT_BUILT == "not-built"
StatusInputs == Range(statuses) \cup {NOT_BUILT, NULL}
ErrorInputs == {<<>>, <<NULL, "e3">>}

\* a setStatus that stores status and errors before it tests the status
callSetStatus_storesFirst(name, status, errors) ==
    /\ IF ~isCompilerActive(activeCompilers, name)
       THEN /\ ret' = [op |-> "setStatus", val |-> "unknown", arg |-> name]
            /\ UNCHANGED mc
       ELSE /\ ret' = [op |-> "setStatus",
                       val |-> IF ValidStatus(status) THEN "returned" ELSE "threw",
                       arg |-> name]
            /\ mc' = [mc EXCEPT ![Lookup(activeCompilers, name)] =
                                    setStatus(@, status, errors)]
    /\ UNCHANGED <<activeCompilers, engine, closeCallbacks, req, calls, now,
                   maxCompilers, useFrequency>>

\* CompilerManager.setStatus(name, status, errors): the ManagedCompiler's
\* setStatus throws on a status outside the list, before any assignment
callSetStatus(name, status, errors) ==
    /\ IF ~isCompilerActive(activeCompilers, name)
       THEN /\ ret' = [op |-> "setStatus", val |-> "unknown", arg |-> name]
            /\ UNCHANGED mc
       ELSE IF ~ValidStatus(status)
       THEN /\ ret' = [op |-> "setStatus", val |-> "threw", arg |-> name]
            /\ UNCHANGED mc
       ELSE /\ ret' = [op |-> "setStatus", val |-> "returned", arg |-> name]
            /\ mc' = [mc EXCEPT ![Lookup(activeCompilers, name)] =
                                    setStatus(@, status, errors)]
    /\ UNCHANGED <<activeCompilers, engine, closeCallbacks, req, calls, now,
                   maxCompilers, useFrequency>>

\* CompilerManager.invalidateCompiler(name)
callInvalidateCompiler(name) ==
    /\ IF ~isCompilerActive(activeCompilers, name)
       THEN /\ ret' = [op |-> "invalidateCompiler", val |-> "false", arg |-> name]
            /\ UNCHANGED <<mc, engine>>
       ELSE LET id == Lookup(activeCompilers, name) IN
            /\ engine[id].invalidateCalls < MaxInvalidates
            /\ mc' = [mc EXCEPT ![id] = invalidate(@)]
            /\ engine' = [engine EXCEPT ![id].invalidateCalls = @ + 1]
            /\ ret' = [op |-> "invalidateCompiler", val |-> "true", arg |-> name]
    /\ UNCHANGED <<activeCompilers, closeCallbacks, req, calls, now,
                   maxCompilers, useFrequency>>

MgrInit ==
    /\ activeCompilers = <<>>
    /\ mc = <<>>
    /\ engine = <<>>
    /\ closeCallbacks = {}
    /\ req = [r \in 1..MaxDeferreds |-> NewRequest]
    /\ calls = [r \in 1..MaxDeferreds |-> <<>>]
    /\ now = 0
    /\ maxCompilers = 0
    /\ useFrequency = FALSE
    /\ ret = NoRet

MgrNames == {"alpha"}

MgrNext ==
    \/ \E name \in MgrNames, status \in Range(statuses) : manageCompiler(name, status)
    \/ \E name \in MgrNames, r \in DOMAIN req : addDeferredCallback(name, r)
    \/ \E name \in MgrNames : configManagerCloseCompiler(name)
    \/ \E cb \in closeCallbacks : closeCallback(cb)
    \/ \E id \in 1..MaxManaged : hookNewCompilation(id)
    \/ \E id \in 1..MaxManaged, errors \in BuildErrorLists \cup {<<>>} : hookDone(id, errors)
    \/ \E id \in 1..MaxManaged, e \in ErrorValues : hookFailed(id, e)
    \/ \E id \in 1..MaxManaged : hookWatchClose(id)

MgrSpec == MgrInit /\ [][MgrNext]_vars

\* The status methods of the CompilerManager (setStatus, invalidateCompiler)
\* called on a compiler that its hooks and a close may act on in between.
ApiNext ==
    \/ \E name \in MgrNames, status \in Range(statuses) : manageCompiler(name, status)
    \/ \E name \in MgrNames, status \in StatusInputs, errors \in ErrorInputs :
           callSetStatus(name, status, errors)
    \/ \E name \in MgrNames : callInvalidateCompiler(name)
    \/ \E name \in MgrNames : configManagerCloseCompiler(name)
    \/ \E cb \in closeCallbacks : closeCallback(cb)
    \/ \E id \in 1..MaxManaged : hookNewCompilation(id)
    \/ \E id \in 1..MaxManaged : hookWatchClose(id)

ApiSpec == MgrInit /\ [][ApiNext]_vars

----------------------------------------------------------------------------
\* Usage tracking and the eviction decision over pools given as input: the
\* ManagedCompiler constructor takes a pinned flag that manageCompiler never
\* passes, so pools that hold pinned compilers are drawn here.

MaxPool == 2
MaxUses == 2
MaxTimeIndex == 3

\* the order in which the input pools were registered
RegistrationOrder == <<"alpha", "beta", "gamma">>

\* pools of distinct names, registered in that order, with a pinned flag each
InputPools ==
    UNION {{[i \in 1..n |-> [name |-> RegistrationOrder[i], pinned |-> f[i]]] :
                f \in [1..n -> BOOLEAN]} :
           n \in 0..(IF MaxPool < Len(RegistrationOrder)
                     THEN MaxPool ELSE Len(RegistrationOrder))}

\* the compiler managed for an input entry at time 0: constructed, then
\* noteCompilerUsage (which skips a pinned one)
ManagedInput(e) ==
    IF e.pinned THEN ManagedCompiler(e.name, DONE, TRUE, 0)
    ELSE logFrequencyUsage(ManagedCompiler(e.name, DONE, FALSE, 0), 0)

EvictInit ==
    /\ \E p \in InputPools :
           /\ activeCompilers = [i \in DOMAIN p |-> [name |-> p[i].name, id |-> i]]
           /\ mc = [i \in DOMAIN p |-> ManagedInput(p[i])]
           /\ engine = [i \in DOMAIN p |-> NewEngine]
    /\ closeCallbacks = {}
    /\ req = [r \in 1..1 |-> NewRequest]
    /\ calls = [r \in 1..1 |-> <<>>]
    /\ now = 0
    /\ maxCompilers \in 0..MaxMaxCompilers
    /\ useFrequency \in BOOLEAN
    /\ ret = NoRet

\* a noteCompilerUsage without the test on pinned
callNoteCompilerUsage_logsPinned(name) ==
    /\ isCompilerActive(activeCompilers, name) =>
           mc[Lookup(activeCompilers, name)].numberOfUses < MaxUses
    /\ mc' = IF isCompilerActive(activeCompilers, name)
             THEN [mc EXCEPT ![Lookup(activeCompilers, name)] = logFrequencyUsage(@, now)]
             ELSE mc
    /\ ret' = [op |-> "noteCompilerUsage", val |-> "undefined", arg |-> name]
    /\ UNCHANGED <<activeCompilers, engine, closeCallbacks, req, calls, now,
                   maxCompilers, useFrequency>>

\* CompilerManager.noteCompilerUsage(name)
callNoteCompilerUsage(name) ==
    /\ isCompilerActive(activeCompilers, name) =>
           mc[Lookup(activeCompilers, name)].numberOfUses < MaxUses
    /\ mc' = noteCompilerUsage(activeCompilers, mc, name, now)
    /\ ret' = [op |-> "noteCompilerUsage", val |-> "undefined", arg |-> name]
    /\ UNCHANGED <<activeCompilers, engine, closeCallbacks, req, calls, now,
                   maxCompilers, useFrequency>>

\* CompilerManager.getLeastUsedCompiler()
callGetLeastUsedCompiler(impl) ==
    /\ ret' = [op |-> "getLeastUsedCompiler",
               val |-> getLeastUsedCompiler(activeCompilers, mc, now, useFrequency, impl),
               arg |-> NULL]
    /\ mc' = IF ret'.val = "TypeError" THEN mc
             ELSE AfterLeastUsed(activeCompilers, mc, now, useFrequency)
    /\ UNCHANGED <<activeCompilers, engine, closeCallbacks, req, calls, now,
                   maxCompilers, useFrequency>>

EvictNext ==
    \/ \E i \in 1..MaxTimeIndex : Tick(i)
    \/ \E name \in ConfigNames : callNoteCompilerUsage(name)
    \/ \E impl \in SortImpls : callGetLeastUsedCompiler(impl)
    \/ \E r \in DOMAIN req, c \in ConfigNames, impl \in SortImpls :
           closeCompilersIfNeeded(r, c, impl)

EvictSpec == EvictInit /\ [][EvictNext]_vars

\* The methods of the CompilerManager called with the name of a compiler of
\* the pool and with a name that no config and no compiler has.
MisuseNames == {"alpha", "delta"}

\* CompilerManager.getStatus(name)
callGetStatus(name) ==
    /\ ret' = [op |-> "getStatus", val |-> getStatus(activeCompilers, mc, name),
               arg |-> name]
    /\ UNCHANGED <<activeCompilers, mc, engine, closeCallbacks, req, calls, now,
                   maxCompilers, useFrequency>>

MisuseInit ==
    /\ \E p \in InputPools :
           /\ activeCompilers = [i \in DOMAIN p |-> [name |-> p[i].name, id |-> i]]
           /\ mc = [i \in DOMAIN p |-> ManagedInput(p[i])]
           /\ engine = [i \in DOMAIN p |-> NewEngine]
    /\ closeCallbacks = {}
    /\ req = [r \in 1..1 |-> NewRequest]
    /\ calls = [r \in 1..1 |-> <<>>]
    /\ now = 0
    /\ maxCompilers = 0
    /\ useFrequency = FALSE
    /\ ret = NoRet

MisuseNext ==
    \/ \E name \in MisuseNames : callGetStatus(name)
    \/ \E name \in MisuseNames, status \in StatusInputs, errors \in ErrorInputs :
           callSetStatus(name, status, errors)
    \/ \E name \in MisuseNames : callNoteCompilerUsage(name)
    \/ \E name \in MisuseNames : callInvalidateCompiler(name)
    \/ \E name \in MisuseNames : configManagerCloseCompiler(name)
    \/ \E id \in 1..MaxPool : hookWatchClose(id)
    \/ \E cb \in closeCallbacks : closeCallback(cb)

MisuseSpec == MisuseInit /\ [][MisuseNext]_vars

\* Registration with the arguments a caller may pass: name is a string or
\* not, the compiler and the watching handle are given or missing, and the
\* status is any of StatusInputs.

\* the argument lists drawn: valid ones with each status, and lists with one
\* defect or with every defect
ConstructorInputs ==
    {[nameIsString |-> TRUE, compiler |-> TRUE, watching |-> TRUE, status |-> st] :
         st \in StatusInputs}
    \cup {[nameIsString |-> FALSE, compiler |-> TRUE, watching |-> TRUE, status |-> DONE],
          [nameIsString |-> TRUE, compiler |-> FALSE, watching |-> TRUE, status |-> DONE],
          [nameIsString |-> TRUE, compiler |-> TRUE, watching |-> FALSE, status |-> DONE],
          [nameIsString |-> FALSE, compiler |-> FALSE, watching |-> FALSE, status |-> NULL]}

\* a constructor that taps the hooks before it validates its arguments
Constructor_hooksFirst(nameIsString, compiler, watching, status) ==
    [threw |-> ~nameIsString \/ ~compiler \/ ~watching \/ ~ValidStatus(status),
     taps |-> IF compiler THEN 1 ELSE 0]

\* new ManagedCompiler(name, compiler, watching, status): whether it throws
\* and how often it has tapped the hooks of the compiler by then; the checks
\* and setStatus(status) come before addCompilationHooks(compiler)
Constructor(nameIsString, compiler, watching, status) ==
    IF ~nameIsString THEN [threw |-> TRUE, taps |-> 0]
    ELSE IF ~compiler \/ ~watching THEN [threw |-> TRUE, taps |-> 0]
    ELSE IF ~ValidStatus(status) THEN [threw |-> TRUE, taps |-> 0]
    ELSE [threw |-> FALSE, taps |-> 1]

\* CompilerManager.manageCompiler(name, compiler, watching, status): an
\* exception of the constructor leaves through manageCompiler, before the
\* assignment to activeCompilers[name]
callManageCompiler(name, nameIsString, compiler, watching, status) ==
    IF Constructor(nameIsString, compiler, watching, status).threw
    THEN /\ ret' = [op |-> "manageCompiler", val |-> "threw", arg |-> name]
         /\ UNCHANGED <<activeCompilers, mc, engine, closeCallbacks, req, calls, now,
                        maxCompilers, useFrequency>>
    ELSE manageCompiler(name, status)

ConstructNext ==
    \/ \E name \in MgrNames, in \in ConstructorInputs :
           callManageCompiler(name, in.nameIsString, in.compiler, in.watching, in.status)
    \/ \E name \in MgrNames : callGetStatus(name)
    \/ \E name \in MgrNames : callInvalidateCompiler(name)
    \/ \E name \in MgrNames : configManagerCloseCompiler(name)
    \/ \E cb \in closeCallbacks : closeCallback(cb)
    \/ \E id \in 1..MaxManaged : hookNewCompilation(id)
    \/ \E id \in 1..MaxManaged, errors \in BuildErrorLists \cup {<<>>} : hookDone(id, errors)
    \/ \E id \in 1..MaxManaged, e \in ErrorValues : hookFailed(id, e)
    \/ \E id \in 1..MaxManaged : hookWatchClose(id)

ConstructSpec == MgrInit /\ [][ConstructNext]_vars

\* The debugging reads of the CompilerManager over a pool that is used while
\* the clock advances.

\* the lists of names a caller asks getAllCompilerInfo about
TargetSets == SUBSET ConfigNames

\* getInfoForCompiler(name) for an active compiler; frequencyChecks is read
\* after getFrequency() has pruned it
getInfoForCompiler(ac, m, name, t) ==
    LET c == m[Lookup(ac, name)] IN
    [status |-> c.status,
     errors |-> c.lastErrors,
     frequency |-> getFrequency(c, t),
     frecency |-> getFrecency(c, t),
     frequencyChecks |-> AfterGetFrequency(c, t).frequencyChecks,
     pinned |-> c.pinned]

\* the objects after getInfoForCompiler has been called for every active name
AfterAllInfo(ac, m, t) ==
    [id \in DOMAIN m |->
        IF \E i \in DOMAIN ac : ac[i].id = id THEN AfterGetFrequency(m[id], t) ELSE m[id]]

\* getAllCompilerInfo(): one entry per key of activeCompilers, then the
\* result of getLeastUsedCompiler(); the method declares no parameter, so an
\* argument of the caller is not read.  threw: getLeastUsedCompiler threw
getAllCompilerInfo(ac, m, t, uf, impl) ==
    LET m1 == AfterAllInfo(ac, m, t)
        least == getLeastUsedCompiler(ac, m1, t, uf, impl)
    IN [threw |-> least = "TypeError",
        compilers |-> [name \in {ac[i].name : i \in DOMAIN ac} |->
                          getInfoForCompiler(ac, m, name, t)],
        leastUsedCompiler |-> least]

\* CompilerManager.getAllCompilerInfo(targetNames)
callGetAllCompilerInfo(targetNames, impl) ==
    LET result == getAllCompilerInfo(activeCompilers, mc, now, useFrequency, impl) IN
    /\ ret' = [op |-> "getAllCompilerInfo",
               val |-> result.leastUsedCompiler,
               arg |-> NULL]
    /\ mc' = IF result.threw THEN AfterAllInfo(activeCompilers, mc, now)
             ELSE AfterLeastUsed(activeCompilers,
                                 AfterAllInfo(activeCompilers, mc, now),
                                 now, useFrequency)
    /\ UNCHANGED <<activeCompilers, engine, closeCallbacks, req, calls, now,
                   maxCompilers, useFrequency>>

\* CompilerManager.getInfoForCompiler(name): an object, or undefined after
\* logging for a name that is not active
callGetInfoForCompiler(name) ==
    /\ ret' = [op |-> "getInfoForCompiler",
               val |-> IF isCompilerActive(activeCompilers, name)
                       THEN "object" ELSE "undefined",
               arg |-> name]
    /\ mc' = AfterInfoFor(activeCompilers, mc, name, now)
    /\ UNCHANGED <<activeCompilers, engine, closeCallbacks, req, calls, now,
                   maxCompilers, useFrequency>>

\* CompilerManager.getAllBuildStatuses(): a map from each active name to its
\* status; it reads only
callGetAllBuildStatuses ==
    /\ ret' = [op |-> "getAllBuildStatuses", val |-> "object", arg |-> NULL]
    /\ UNCHANGED <<activeCompilers, mc, engine, closeCallbacks, req, calls, now,
                   maxCompilers, useFrequency>>

InfoNext ==
    \/ callGetAllBuildStatuses
    \/ \E name \in ConfigNames : callGetInfoForCompiler(name)
    \/ \E i \in 1..MaxTimeIndex : Tick(i)
    \/ \E name \in ConfigNames : callNoteCompilerUsage(name)
    \/ \E targetNames \in TargetSets, impl \in SortImpls :
           callGetAllCompilerInfo(targetNames, impl)

InfoSpec == EvictInit /\ [][InfoNext]_vars

\* The deferred of defer() on its own: one deferred whose resolve and reject
\* are invoked any number of times, in any order, with any of DeferValues.
\* Here req[d] is the promise of deferred d and calls[d] lists the
\* invocations of its two functions.

MaxCalls == 3
DeferValues == {"true", "false", "e3"}

PendingPromise == [state |-> "pending", value |-> NULL]

\* a promise whose last settling call wins
Settle_last(p, how, value) ==
    [state |-> IF how = "resolve" THEN "fulfilled" ELSE "rejected", value |-> value]

\* res(value) / rej(value) of new Promise((res, rej) => ...): they settle a
\* pending promise and do nothing to a settled one
Settle(p, how, value) ==
    IF p.state = "pending"
    THEN [state |-> IF how = "resolve" THEN "fulfilled" ELSE "rejected",
          value |-> value]
    ELSE p

DeferInit ==
    /\ activeCompilers = <<>>
    /\ mc = <<>>
    /\ engine = <<>>
    /\ closeCallbacks = {}
    /\ req = [d \in 1..1 |-> PendingPromise]
    /\ calls = [d \in 1..1 |-> <<>>]
    /\ now = 0
    /\ maxCompilers = 0
    /\ useFrequency = FALSE
    /\ ret = NoRet

\* deferred.resolve(value)
deferResolve(d, value) ==
    /\ Len(calls[d]) < MaxCalls
    /\ calls' = [calls EXCEPT ![d] = Append(@, [how |-> "resolve", val |-> value])]
    /\ req' = [req EXCEPT ![d] = Settle(@, "resolve", value)]
    /\ UNCHANGED <<activeCompilers, mc, engine, closeCallbacks, now, maxCompilers,
                   useFrequency, ret>>

\* deferred.reject(value)
deferReject(d, value) ==
    /\ Len(calls[d]) < MaxCalls
    /\ calls' = [calls EXCEPT ![d] = Append(@, [how |-> "reject", val |-> value])]
    /\ req' = [req EXCEPT ![d] = Settle(@, "reject", value)]
    /\ UNCHANGED <<activeCompilers, mc, engine, closeCallbacks, now, maxCompilers,
                   useFrequency, ret>>

DeferNext ==
    \/ \E d \in DOMAIN req, value \in DeferValues : deferResolve(d, value)
    \/ \E d \in DOMAIN req, value \in DeferValues : deferReject(d, value)

DeferSpec == DeferInit /\ [][DeferNext]_vars

\* configManager.buildConfig called from a hook of the host, for a config of
\* this.configs and for a name that no config has, while the compilers it
\* starts build, fail and are closed.  The promise of call r is req[r]:
\* result "overlay" is resolved with true, "serve" resolved with false,
\* "rejected" and "error" are rejections.

BuildNames == {"alpha", "delta"}

\* PublicConfigManager.buildConfig(configName) -> Kevin.buildConfig(configName)
configManagerBuildConfig(r, configName) ==
    /\ IsNext(r)
    /\ IF configName \notin ConfigNames
       THEN /\ req' = [req EXCEPT ![r] = [pc |-> "done", kind |-> "api",
                                          config |-> configName, result |-> "rejected"]]
            /\ UNCHANGED <<activeCompilers, mc, engine, closeCallbacks, calls, now,
                           maxCompilers, useFrequency, ret>>
       ELSE KevinBuildConfig([req EXCEPT ![r] = [pc |-> "build", kind |-> "api",
                                                 config |-> configName,
                                                 result |-> "none"]], r)

BuildNext ==
    \/ \E r \in DOMAIN req, name \in BuildNames : configManagerBuildConfig(r, name)
    \/ \E name \in BuildNames : configManagerCloseCompiler(name)
    \/ \E cb \in closeCallbacks : closeCallback(cb)
    \/ \E id \in 1..MaxEngines : hookNewCompilation(id)
    \/ \E id \in 1..MaxEngines, errors \in BuildErrorLists \cup {<<>>} : hookDone(id, errors)
    \/ \E id \in 1..MaxEngines, e \in ErrorValues : hookFailed(id, e)
    \/ \E id \in 1..MaxEngines : hookWatchClose(id)

BuildSpec == MgrInit /\ [][BuildNext]_vars

\* The eviction flow of an asset request over a pool at its limit, with a
\* host that may tap the compilerClose hook and replace the victim.

\* what a tap leaves in options.compilerToEvict: NULL (untouched), the name
\* of a compiler that may be active, a name that no compiler has
HookChoices == {NULL, "alpha", "delta"}

HookNext ==
    \/ \E r \in DOMAIN req, c \in ConfigNames, impl \in SortImpls,
          replaced \in HookChoices :
           closeCompilersIfNeededHooked(r, c, impl, replaced)
    \/ \E r \in DOMAIN req : buildConfig(r)
    \/ \E name \in ConfigNames : callNoteCompilerUsage(name)
    \/ \E id \in 1..MaxEngines : hookWatchClose(id)
    \/ \E cb \in closeCallbacks : closeCallback(cb)

HookSpec == EvictInit /\ [][HookNext]_vars

\* Several compilers side by side: each builds, fails and is waited for on
\* its own.
FrameNext ==
    \/ \E name \in ConfigNames, r \in DOMAIN req : addDeferredCallback(name, r)
    \/ \E id \in 1..MaxPool : hookNewCompilation(id)
    \/ \E id \in 1..MaxPool, errors \in BuildErrorLists \cup {<<>>} : hookDone(id, errors)
    \/ \E id \in 1..MaxPool, e \in ErrorValues : hookFailed(id, e)

FrameSpec == EvictInit /\ [][FrameNext]_vars

\* The middleware serving the assets of two configs: requests, evictions,
\* restarts and every signal of the engines.
LifeNames == {"alpha", "beta"}

LifeInit ==
    /\ activeCompilers = <<>>
    /\ mc = <<>>
    /\ engine = <<>>
    /\ closeCallbacks = {}
    /\ req = [r \in 1..MaxDeferreds |-> NewRequest]
    /\ calls = [r \in 1..MaxDeferreds |-> <<>>]
    /\ now = 0
    /\ maxCompilers \in 0..1
    /\ useFrequency = FALSE
    /\ ret = NoRet

LifeNext ==
    \/ \E r \in DOMAIN req, c \in LifeNames, impl \in SortImpls :
           closeCompilersIfNeeded(r, c, impl)
    \/ \E r \in DOMAIN req : buildConfig(r)
    \/ \E r \in DOMAIN req, c \in LifeNames, hard \in BOOLEAN : restartCompiler(r, c, hard)
    \/ \E cb \in closeCallbacks : closeCallback(cb)
    \/ \E id \in 1..MaxEngines : hookNewCompilation(id)
    \/ \E id \in 1..MaxEngines, errors \in BuildErrorLists \cup {<<>>} : hookDone(id, errors)
    \/ \E id \in 1..MaxEngines, e \in ErrorValues : hookFailed(id, e)
    \/ \E id \in 1..MaxEngines : hookWatchClose(id)
    \/ \E id \in 1..MaxEngines, e \in ErrorValues : watchHandler(id, e)

LifeSpec == LifeInit /\ [][LifeNext]_vars

\* Requests for the one config alpha that arrive one after the other while
\* its compiler builds, fails and rebuilds.
RebuildNext ==
    \/ \E r \in DOMAIN req, name \in MgrNames : configManagerBuildConfig(r, name)
    \/ \E id \in 1..MaxManaged : hookNewCompilation(id)
    \/ \E id \in 1..MaxManaged, errors \in BuildErrorLists \cup {<<>>} : hookDone(id, errors)
    \/ \E id \in 1..MaxManaged, e \in ErrorValues : hookFailed(id, e)
    \/ \E id \in 1..MaxManaged, e \in ErrorValues : watchHandler(id, e)

RebuildSpec == Init /\ [][RebuildNext]_vars

\* The engine delivers what it owes: a running compiler finishes its build,
\* a closed watcher stops (watchClose) and then calls back.
Fairness ==
    /\ \A id \in 1..MaxEngines :
           /\ WF_vars(\E errors \in BuildErrorLists \cup {<<>>} : hookDone(id, errors))
           /\ WF_vars(hookWatchClose(id))
    /\ WF_vars(\E cb \in closeCallbacks : closeCallback(cb))
    /\ \A r \in 1..MaxRequests : WF_vars(buildConfig(r))

FairSpec == Spec /\ Fairness

----------------------------------------------------------------------------
\* Properties

\* the object id is the entry of the pool under its name
InPool(id) ==
    \E i \in DOMAIN activeCompilers :
        activeCompilers[i].id = id /\ activeCompilers[i].name = mc[id].name

PendingCloses(id) == {cb \in closeCallbacks : cb.eng = id}

\* a close of the compiler has completed: its watcher has stopped and a
\* completion callback has fired
CloseCompleted(id) ==
    /\ engine[id].watching = "closed"
    /\ engine[id].closeCalls > Cardinality(PendingCloses(id))

\* C1: with maxCompilers > 0 the number of active compilers never exceeds it.
C1_ActiveWithinMax ==
    maxCompilers > 0 => countActiveCompilers(activeCompilers) <= maxCompilers

\* C5: once a close has completed and removed the compiler from the pool, no
\* deferred registered on that compiler is still pending.
C5_NoWaiterAfterClose ==
    \A id \in DOMAIN mc :
        (CloseCompleted(id) /\ ~InPool(id)) => mc[id].callbacks = <<>>

\* C7: watching.close() is called at most once on every compiler.
C7_CloseCalledOnce ==
    \A id \in DOMAIN engine : engine[id].closeCalls <= 1

\* C8: at most one started and not yet closed engine exists per config name.
C8_OneEnginePerName ==
    \A i, j \in DOMAIN engine :
        (/\ mc[i].name = mc[j].name
         /\ engine[i].watching # "closed"
         /\ engine[j].watching # "closed") => i = j

\* C9: isCompilerActive(name) iff a compiler is running for name: every
\* compiler whose close has not completed is the pool's entry under its name,
\* and every entry of the pool is such a compiler.
C9_ActiveIffRunning ==
    /\ \A id \in DOMAIN mc : ~CloseCompleted(id) => InPool(id)
    /\ \A i \in DOMAIN activeCompilers :
           LET id == activeCompilers[i].id IN
           mc[id].name = activeCompilers[i].name /\ ~CloseCompleted(id)

\* C4: every request enqueued as a waiter is eventually resolved or rejected.
C4_WaitersEventuallySettled ==
    \A r \in 1..MaxRequests : (req[r].pc = "waiting") ~> (req[r].pc = "done")

\* C6: a compiler is active from its registration until its close-completion
\* callback fires: an entry leaves the pool only in the step of a completion
\* callback of that compiler's close, while a close is pending the name is
\* still active, and the step of a completion callback makes the name inactive
\* and lowers the count by one.
C6_ActiveUntilCloseCallback ==
    [][/\ \A id \in DOMAIN mc :
              (InPool(id) /\ ~InPool(id)') =>
                  \E cb \in closeCallbacks \ closeCallbacks' : cb.eng = id
       /\ \A cb \in closeCallbacks' : isCompilerActive(activeCompilers', cb.name)
       /\ \A cb \in closeCallbacks \ closeCallbacks' :
              /\ ~isCompilerActive(activeCompilers', cb.name)
              /\ countActiveCompilers(activeCompilers') =
                     countActiveCompilers(activeCompilers) - 1
      ]_vars

\* C2: one build-finished signal without errors sets the status to DONE,
\* resolves every deferred of the compiler's list with false, touches no other
\* deferred, and leaves the list empty.
C2_Coalescing ==
    [][\A id \in DOMAIN mc :
           hookDone(id, <<>>) =>
               /\ mc'[id].status = DONE
               /\ mc'[id].callbacks = <<>>
               /\ \A r \in DOMAIN calls :
                      calls'[r] = IF r \in Range(mc[id].callbacks)
                                  THEN <<ResolveCall("false")>>
                                  ELSE calls[r]
      ]_vars

\* two deferreds registered for the same compiler, both resolved with false,
\* the compiler DONE with an empty list
C2_Witness ==
    \E id \in DOMAIN mc :
        /\ mc[id].status = DONE
        /\ mc[id].callbacks = <<>>
        /\ Cardinality({r \in DOMAIN calls :
                            /\ req[r].config = mc[id].name
                            /\ calls[r] = <<ResolveCall("false")>>}) >= 2

\* C3: a registered deferred is called at most once; a step that calls it
\* calls every deferred of its compiler's list once and empties the list,
\* every other step leaves it registered and untouched, and a deferred that is
\* registered in a step is not called in that step.
C3_SettledAtMostOnce ==
    [][/\ \A r \in DOMAIN calls : Len(calls'[r]) <= 1
       /\ \A id \in DOMAIN mc : \A r \in Range(mc[id].callbacks) :
              \/ calls'[r] = calls[r] /\ r \in Range(mc'[id].callbacks)
              \/ /\ mc'[id].callbacks = <<>>
                 /\ \A q \in Range(mc[id].callbacks) :
                        Len(calls[q]) = 0 /\ Len(calls'[q]) = 1
       /\ \A r \in DOMAIN calls :
              (req[r].pc = "waiting" /\ calls'[r] # calls[r]) =>
                  \E id \in DOMAIN mc : r \in Range(mc[id].callbacks)
       /\ \A r \in DOMAIN calls :
              (req[r].pc = "new" /\ req'[r].pc = "waiting") => calls'[r] = <<>>
      ]_vars

\* two deferreds registered for the same name were settled by different
\* signals: the second was added after the first one's settlement
C3_Witness ==
    \E r1, r2 \in DOMAIN calls :
        /\ r1 < r2
        /\ req[r1].config = req[r2].config
        /\ Len(calls[r1]) = 1 /\ Len(calls[r2]) = 1
        /\ calls[r1][1].val # <<"untracked">> /\ calls[r2][1].val # <<"untracked">>
        /\ calls[r1] # calls[r2]

\* C10: while an unpinned compiler is in the pool, getLeastUsedCompiler returns
\* the name of an unpinned compiler of the pool, with either score, and the
\* compiler that closeCompilersIfNeeded closes is not pinned.
C10_NeverEvictsPinned ==
    /\ (ret.op = "getLeastUsedCompiler" /\ \E id \in DOMAIN mc : InPool(id) /\ ~mc[id].pinned)
           => \E id \in DOMAIN mc : InPool(id) /\ ~mc[id].pinned /\ mc[id].name = ret.val
    /\ \A cb \in closeCallbacks : cb.req # 0 => ~mc[cb.eng].pinned

\* unpinned alpha and pinned beta are active, the capacity is 1, and the
\* request for gamma is closing alpha
C10_Witness ==
    /\ maxCompilers = 1
    /\ \E a, b \in DOMAIN mc :
           /\ InPool(a) /\ mc[a].name = "alpha" /\ ~mc[a].pinned
           /\ InPool(b) /\ mc[b].name = "beta" /\ mc[b].pinned
           /\ \E cb \in closeCallbacks :
                  cb.eng = a /\ cb.req \in DOMAIN req /\ req[cb.req].config = "gamma"

\* C11: while an unpinned compiler is active, getLeastUsedCompiler returns the
\* name of an unpinned compiler whose score (frequency with useFrequency,
\* frecency otherwise) is the minimum over the unpinned compilers, and among
\* those with the minimal score the first in the order of the pool.
C11_ReturnsLeastUsed ==
    [][\A impl \in SortImpls :
           (/\ callGetLeastUsedCompiler(impl)
            /\ Unpinned(activeCompilers, mc) # <<>>) =>
               LET list == Unpinned(activeCompilers, mc) IN
               \E i \in DOMAIN list :
                   /\ ret'.val = list[i].name
                   /\ \A j \in DOMAIN list :
                          Score(mc[list[i].id], now, useFrequency)
                              <= Score(mc[list[j].id], now, useFrequency)
                   /\ \A j \in 1..(i - 1) :
                          Score(mc[list[j].id], now, useFrequency)
                              > Score(mc[list[i].id], now, useFrequency)
      ]_vars

\* C12: getLeastUsedCompiler returns null, without throwing, over an empty
\* pool and over a pool in which every compiler is pinned.
C12_NullWithoutUnpinned ==
    (/\ ret.op = "getLeastUsedCompiler"
     /\ Unpinned(activeCompilers, mc) = <<>>) => ret.val = NULL

\* C13: on an active compiler setStatus(s, errors) with s one of first-build,
\* building, error, done returns for every error list (error with no errors
\* included) and getStatus then reads exactly s; with any other value it throws.
C13_SetStatusRoundTrip ==
    [][\A name \in MgrNames, status \in StatusInputs, errors \in ErrorInputs :
           (/\ callSetStatus(name, status, errors)
            /\ isCompilerActive(activeCompilers, name)) =>
               IF status \in {FIRST_BUILD, BUILDING, ERROR, DONE}
               THEN /\ ret'.val = "returned"
                    /\ getStatus(activeCompilers', mc', name) = status
               ELSE ret'.val = "threw"
      ]_vars

\* setStatus(ERROR) without errors has returned: the status reads error and
\* no error is stored
C13_Witness ==
    /\ ret.op = "setStatus" /\ ret.val = "returned"
    /\ \E id \in DOMAIN mc :
           InPool(id) /\ mc[id].status = ERROR /\ mc[id].lastErrors = <<>>

\* C14: a build-started or build-invalidated hook (invalid, run, watchRun)
\* leaves a first-build status as it is and sets every other status to
\* building; no step of a hook takes a compiler from first-build to building.
C14_FirstBuildKept ==
    [][/\ \A id \in DOMAIN mc :
              hookNewCompilation(id) =>
                  mc'[id].status = IF mc[id].status = FIRST_BUILD
                                   THEN FIRST_BUILD ELSE BUILDING
       /\ \A id \in DOMAIN mc :
              mc[id].status = FIRST_BUILD => mc'[id].status # BUILDING
      ]_vars

\* the only compiler ever managed failed a build (its waiter got the error)
\* and a later hook has set it to building, which clears the stored errors
C14_Witness ==
    /\ Len(mc) = 1 /\ InPool(1)
    /\ mc[1].status = BUILDING /\ mc[1].lastErrors = <<>>
    /\ \E r \in DOMAIN calls : calls[r] = <<RejectCall("error", <<"e3">>)>>

\* C15: invalidateCompiler(name) on an active compiler calls
\* watching.invalidate() exactly once, sets the status to building whatever it
\* was (first-build included) and returns true; watching.close() is not
\* called and the compiler stays in the pool.
C15_InvalidateSetsBuilding ==
    [][\A name \in MgrNames :
           (/\ callInvalidateCompiler(name)
            /\ isCompilerActive(activeCompilers, name)) =>
               LET id == Lookup(activeCompilers, name) IN
               /\ engine'[id].invalidateCalls = engine[id].invalidateCalls + 1
               /\ mc'[id].status = BUILDING
               /\ ret'.val = "true"
               /\ engine'[id].closeCalls = engine[id].closeCalls
               /\ engine'[id].watching = engine[id].watching
               /\ activeCompilers' = activeCompilers
      ]_vars

\* invalidateCompiler has returned true for a compiler whose watcher is open:
\* one watching.invalidate() call, status building, still in the pool
C15_Witness ==
    /\ ret.op = "invalidateCompiler" /\ ret.val = "true"
    /\ \E id \in DOMAIN mc :
           /\ InPool(id) /\ mc[id].status = BUILDING
           /\ engine[id].invalidateCalls = 1
           /\ engine[id].watching = "open" /\ engine[id].closeCalls = 0

\* C16: a build-finished hook with errors sets the status to error, stores
\* one description (the stack) per error of the list, in order, as lastErrors,
\* rejects every deferred of the list with the error list and resolves none,
\* leaves the list empty and leaves the compiler in the pool.
C16_DoneWithErrorsRejects ==
    [][\A id \in DOMAIN mc, errors \in BuildErrorLists :
           hookDone(id, errors) =>
               /\ mc'[id].status = ERROR
               /\ mc'[id].lastErrors = [i \in DOMAIN errors |-> Stack(errors[i])]
               /\ mc'[id].callbacks = <<>>
               /\ \A r \in DOMAIN calls :
                      calls'[r] = IF r \in Range(mc[id].callbacks)
                                  THEN Append(calls[r], RejectCall("array", errors))
                                  ELSE calls[r]
               /\ activeCompilers' = activeCompilers
      ]_vars

\* two deferreds of one active compiler were rejected with the error list of
\* its build; the compiler is in error with both descriptions stored
C16_Witness ==
    \E id \in DOMAIN mc, errors \in BuildErrorLists :
        /\ InPool(id) /\ mc[id].status = ERROR /\ mc[id].callbacks = <<>>
        /\ mc[id].lastErrors = [i \in DOMAIN errors |-> Stack(errors[i])]
        /\ Cardinality({r \in DOMAIN calls :
                            calls[r] = <<RejectCall("array", errors)>>}) >= 2

\* C17: a build-failed hook with error e is treated as a build-finished hook
\* with the error list [e]: the status becomes error, lastErrors has exactly
\* one entry, every deferred of the list is rejected with the value it would
\* get from that build-finished hook (the list [e]), and the list is empty.
C17_FailedLikeDoneWithOneError ==
    [][\A id \in DOMAIN mc, e \in ErrorValues :
           hookFailed(id, e) =>
               /\ mc'[id].status = ERROR
               /\ mc'[id].lastErrors = <<Stack(e)>>
               /\ mc'[id].callbacks = <<>>
               /\ \A r \in Range(mc[id].callbacks) :
                      calls'[r] = Append(calls[r], RejectCall("array", <<e>>))
      ]_vars

\* C18: the watchClose hook rejects every deferred of the list with the
\* "closed before the request could be completed" error, a value that is no
\* build error list, empties the list, and leaves the status, lastErrors, the
\* usage data and the pool as they were.
C18_WatchCloseRejectsOnly ==
    [][\A id \in DOMAIN mc :
           hookWatchClose(id) =>
               /\ mc'[id] = [mc[id] EXCEPT !.callbacks = <<>>]
               /\ \A r \in DOMAIN calls :
                      calls'[r] = IF r \in Range(mc[id].callbacks)
                                  THEN Append(calls[r], RejectCall("error", <<CLOSED_MESSAGE>>))
                                  ELSE calls[r]
               /\ \A errors \in BuildErrorLists, e \in ErrorValues :
                      /\ RejectCall("error", <<CLOSED_MESSAGE>>) # RejectCall("array", errors)
                      /\ RejectCall("error", <<CLOSED_MESSAGE>>) # RejectCall("error", <<e>>)
               /\ activeCompilers' = activeCompilers
      ]_vars

\* a closed watcher has emitted watchClose while a deferred was registered:
\* the deferred got the closed error, the compiler is still in the pool with
\* a status that is not error and an empty list
C18_Witness ==
    \E id \in DOMAIN mc :
        /\ engine[id].watching = "closed" /\ InPool(id)
        /\ mc[id].status = BUILDING /\ mc[id].callbacks = <<>>
        /\ mc[id].numberOfUses = 1
        /\ \E r \in DOMAIN calls :
               calls[r] = <<RejectCall("error", <<CLOSED_MESSAGE>>)>>

C20_CreationIsFirstUse ==
    [][\A name \in MgrNames, status \in Range(statuses) :
           manageCompiler(name, status) =>
               LET c == mc'[Lookup(activeCompilers', name)]
                   unused == ManagedCompiler(name, status, FALSE, now)
               IN  /\ ~c.pinned
                   /\ c.numberOfUses = 1
                   /\ Len(c.frequencyChecks) = 1
                   /\ getFrequency(c, now') > 0
                   /\ getFrecency(c, now') > 0
                   /\ \A i \in DOMAIN TimePoints :
                          /\ getFrequency(unused, TimePoints[i]) = 0
                          /\ getFrecency(unused, TimePoints[i]) = 0
      ]_vars

\* a compiler has just been registered: one use, one sample, nothing else
\* has happened to it
C20_Witness ==
    \E id \in DOMAIN mc :
        /\ InPool(id) /\ mc[id].status = FIRST_BUILD
        /\ mc[id].numberOfUses = 1 /\ mc[id].frequencyChecks = <<now>>
        /\ mc[id].lastUse = now
        /\ engine[id] = NewEngine

\* C21: noteCompilerUsage(name) on a pinned compiler changes nothing, however
\* often it is called: the samples, numberOfUses and lastUse of a pinned
\* compiler are always those it was constructed with.
C21_PinnedUsageUntouched ==
    \A id \in DOMAIN mc :
        mc[id].pinned =>
            /\ mc[id].frequencyChecks = <<>>
            /\ mc[id].numberOfUses = 0
            /\ mc[id].lastUse = 0

\* noteCompilerUsage has just been called, later than its construction, on
\* an active pinned compiler
C21_Witness ==
    /\ ret.op = "noteCompilerUsage"
    /\ now > 0
    /\ isCompilerActive(activeCompilers, ret.arg)
    /\ mc[Lookup(activeCompilers, ret.arg)].pinned

\* C22: a pinned compiler's getFrequency() and getFrecency() return Infinity
\* in every reachable state, whatever was noted on it and whatever the clock
\* reads.
C22_PinnedScoresInfinite ==
    \A id \in DOMAIN mc :
        mc[id].pinned =>
            /\ getFrequency(mc[id], now) = Infinity
            /\ getFrecency(mc[id], now) = Infinity

\* a pinned compiler more than an hour after its construction, next to an
\* unpinned one used MaxUses times, when getLeastUsedCompiler has just run
C22_Witness ==
    /\ now > FREQUENCY_RANGE * MS_PER_MINUTE
    /\ ret.op = "getLeastUsedCompiler"
    /\ \E id \in DOMAIN mc : InPool(id) /\ mc[id].pinned
    /\ \E id \in DOMAIN mc : InPool(id) /\ ~mc[id].pinned /\ mc[id].numberOfUses = MaxUses

\* C23: for an unpinned compiler a noteCompilerUsage made with the clock
\* unchanged strictly increases both scores: getFrequency() and getFrecency()
\* read after the call are greater than read before it (the read before
\* prunes the samples; the result is compared with and without that pruning).
C23_UsageIncreasesScores ==
    [][\A name \in ConfigNames :
           (/\ callNoteCompilerUsage(name)
            /\ isCompilerActive(activeCompilers, name)
            /\ ~mc[Lookup(activeCompilers, name)].pinned) =>
               LET id == Lookup(activeCompilers, name)
                   c == mc[id]
                   logged == logFrequencyUsage(AfterGetFrequency(c, now), now)
               IN  /\ getFrequency(mc'[id], now') > getFrequency(c, now)
                   /\ getFrequency(logged, now) > getFrequency(c, now)
                   /\ getFrecency(mc'[id], now') > getFrecency(c, now)
                   /\ getFrecency(logged, now) > getFrecency(c, now)
      ]_vars

\* a second usage has just been noted on an active unpinned compiler
C23_Witness ==
    /\ ret.op = "noteCompilerUsage"
    /\ isCompilerActive(activeCompilers, ret.arg)
    /\ LET c == mc[Lookup(activeCompilers, ret.arg)] IN
       ~c.pinned /\ c.numberOfUses = 2 /\ Len(c.frequencyChecks) = 2 /\ c.lastUse = now

\* C24: called with a name that has no active compiler, getStatus returns
\* null, setStatus and noteCompilerUsage return without doing anything,
\* invalidateCompiler returns false and closeCompiler resolves to null without
\* a watching.close() call; none of them throws, and the pool, every
\* compiler's status, errors, usage data and callbacks, and every watcher are
\* unchanged.
C24_UnknownNameNoEffect ==
    [][\A name \in MisuseNames :
           ~isCompilerActive(activeCompilers, name) =>
               /\ (\/ callGetStatus(name)
                   \/ \E status \in StatusInputs, errors \in ErrorInputs :
                          callSetStatus(name, status, errors)
                   \/ callNoteCompilerUsage(name)
                   \/ callInvalidateCompiler(name)
                   \/ configManagerCloseCompiler(name)) =>
                      /\ activeCompilers' = activeCompilers
                      /\ mc' = mc
                      /\ engine' = engine
                      /\ closeCallbacks' = closeCallbacks
                      /\ calls' = calls
                      /\ ret'.val # "threw"
               /\ callGetStatus(name) => ret'.val = NULL
               /\ callInvalidateCompiler(name) => ret'.val = "false"
               /\ configManagerCloseCompiler(name) => ret'.val = NULL
      ]_vars

\* closeCompiler has resolved to null for a name that is not active while a
\* compiler is active, and no watching.close() was called
C24_Witness ==
    /\ ret.op = "closeCompiler" /\ ret.val = NULL
    /\ ~isCompilerActive(activeCompilers, ret.arg)
    /\ activeCompilers # <<>>
    /\ \A id \in DOMAIN engine : engine[id].closeCalls = 0

\* C25: manageCompiler with invalid construction parameters (a name that is
\* not a string, a missing handle, a status outside the four) fails silently:
\* nothing is thrown to the caller and the pool is unchanged.
C25_RegisterFailsSilently ==
    [][\A name \in MgrNames, in \in ConstructorInputs :
           (/\ callManageCompiler(name, in.nameIsString, in.compiler, in.watching,
                                  in.status)
            /\ \/ ~in.nameIsString \/ ~in.compiler \/ ~in.watching
               \/ in.status \notin {FIRST_BUILD, BUILDING, ERROR, DONE}) =>
               /\ ret'.val # "threw"
               /\ activeCompilers' = activeCompilers
      ]_vars

\* C26: the ManagedCompiler constructor throws when name is not a string,
\* when the compiler or the watching handle is missing, or when the status is
\* not one of the four, and has then tapped no hook of the compiler and
\* created no object; with valid arguments it does not throw, taps the hooks
\* once and the new compiler is live.
C26_ConstructorValidates ==
    [][((ret'.op = "manageCompiler" /\ ret' # ret) \/ Len(mc') > Len(mc)) =>
       \A name \in MgrNames, in \in ConstructorInputs :
           callManageCompiler(name, in.nameIsString, in.compiler, in.watching, in.status) =>
               IF \/ ~in.nameIsString \/ ~in.compiler \/ ~in.watching
                  \/ in.status \notin {FIRST_BUILD, BUILDING, ERROR, DONE}
               THEN /\ ret'.val = "threw"
                    /\ Constructor(in.nameIsString, in.compiler, in.watching,
                                   in.status).taps = 0
                    /\ mc' = mc /\ engine' = engine
               ELSE /\ ret'.val # "threw"
                    /\ Constructor(in.nameIsString, in.compiler, in.watching,
                                   in.status).taps = 1
                    /\ Len(mc') = Len(mc) + 1
                    /\ mc'[Len(mc')].status = in.status
                    /\ engine' = Append(engine, NewEngine)
      ]_vars

\* a construction has just thrown while the pool is empty: no object and no
\* tapped compiler exist
C26_Witness ==
    /\ ret.op = "manageCompiler" /\ ret.val = "threw"
    /\ mc = <<>> /\ engine = <<>> /\ activeCompilers = <<>>

\* C27: getAllCompilerInfo(targetNames) returns an entry for every name of
\* targetNames: for an active compiler its status, errors, frequency,
\* frecency, frequencyChecks and pinned flag, for a target without an active
\* compiler exactly {status: not-built}; and its leastUsedCompiler is what
\* getLeastUsedCompiler() returns in the same state.
C27_AllInfoCoversTargets ==
    [][\A targetNames \in TargetSets, impl \in SortImpls :
           callGetAllCompilerInfo(targetNames, impl) =>
               LET result == getAllCompilerInfo(activeCompilers, mc, now,
                                                useFrequency, impl)
               IN /\ ~result.threw
                  /\ targetNames \subseteq DOMAIN result.compilers
                  /\ \A name \in targetNames :
                         IF isCompilerActive(activeCompilers, name)
                         THEN LET c == mc[Lookup(activeCompilers, name)] IN
                              /\ result.compilers[name].status = c.status
                              /\ result.compilers[name].errors = c.lastErrors
                              /\ result.compilers[name].frequency = getFrequency(c, now)
                              /\ result.compilers[name].frecency = getFrecency(c, now)
                              /\ result.compilers[name].pinned = c.pinned
                         ELSE result.compilers[name] = [status |-> NOT_BUILT]
                  /\ result.leastUsedCompiler =
                         getLeastUsedCompiler(activeCompilers, mc', now,
                                              useFrequency, impl)
      ]_vars

\* C28: the promise of a deferred settles exactly once, with the outcome and
\* the value of the first invocation of resolve or reject; every later
\* invocation of either leaves the settled outcome and value as they are.
C28_DeferredSettlesOnce ==
    [][\A d \in DOMAIN req :
           calls'[d] # calls[d] =>
               /\ req'[d].state = IF calls'[d][1].how = "resolve"
                                  THEN "fulfilled" ELSE "rejected"
               /\ req'[d].value = calls'[d][1].val
               /\ calls[d] # <<>> => req'[d] = req[d]
               /\ calls[d] = <<>> => req[d] = PendingPromise
      ]_vars

\* resolve("true") was invoked first, then reject("e3"), and the promise is
\* fulfilled with "true"
C28_Witness ==
    /\ Len(calls[1]) >= 2
    /\ calls[1][1] = [how |-> "resolve", val |-> "true"]
    /\ calls[1][2] = [how |-> "reject", val |-> "e3"]
    /\ req[1] = [state |-> "fulfilled", value |-> "true"]

\* C29: buildConfig(configName) for a config of this.configs resolves to true
\* at once when it starts a compiler or the compiler is in its first build,
\* resolves to false at once when the compiler is done, and for a building
\* or errored compiler stays pending as one of its callbacks; a pending call
\* is resolved (to false) only by a build that finished without errors and
\* rejected only by a build with errors, a failed build or the close of the
\* compiler, and none stays pending on a compiler that has been closed.  For
\* a name without a config it rejects and starts no compiler.
C29_BuildConfigContract ==
    [][/\ \A r \in DOMAIN req, name \in BuildNames :
              configManagerBuildConfig(r, name) =>
                  IF name \notin ConfigNames
                  THEN /\ req'[r].pc = "done" /\ req'[r].result = "rejected"
                       /\ UNCHANGED <<activeCompilers, mc, engine>>
                  ELSE IF ~isCompilerActive(activeCompilers, name)
                  THEN /\ req'[r].pc = "done" /\ req'[r].result = "overlay"
                       /\ engine' = Append(engine, NewEngine)
                       /\ isCompilerActive(activeCompilers', name)
                  ELSE LET id == Lookup(activeCompilers, name) IN
                       /\ engine' # engine => mc[id].status = ERROR
                       /\ mc[id].status = FIRST_BUILD =>
                              req'[r].pc = "done" /\ req'[r].result = "overlay"
                       /\ mc[id].status = DONE =>
                              req'[r].pc = "done" /\ req'[r].result = "serve"
                       /\ mc[id].status \in {BUILDING, ERROR} =>
                              /\ req'[r].pc = "waiting"
                              /\ r \in Range(mc'[id].callbacks)
                              /\ mc'[id].status = BUILDING
       /\ \A r \in DOMAIN req :
              req[r].pc = "waiting" /\ req'[r].pc = "done" =>
                  \/ /\ req'[r].result = "serve"
                     /\ \E id \in DOMAIN mc :
                            r \in Range(mc[id].callbacks) /\ hookDone(id, <<>>)
                  \/ /\ req'[r].result = "error"
                     /\ \E id \in DOMAIN mc :
                            /\ r \in Range(mc[id].callbacks)
                            /\ \/ \E errors \in BuildErrorLists : hookDone(id, errors)
                               \/ \E e \in ErrorValues : hookFailed(id, e)
                               \/ hookWatchClose(id)
       /\ \A r \in DOMAIN req :
              req'[r].pc = "waiting" =>
                  \E id \in DOMAIN mc' :
                      r \in Range(mc'[id].callbacks) /\ engine'[id].watching # "closed"
      ]_vars

\* C30: closeCompilersIfNeeded closes nothing and leaves the pool as it is,
\* and its promise is resolved at once, when maxCompilers is 0 (whatever the
\* size of the pool), when the target is already active (even with more
\* active compilers than maxCompilers), or when fewer compilers are active
\* than maxCompilers.
C30_NoEvictionCases ==
    [][\A r \in DOMAIN req, c \in ConfigNames, impl \in SortImpls :
           (/\ closeCompilersIfNeeded(r, c, impl)
            /\ \/ maxCompilers = 0
               \/ KeyIndex(activeCompilers, c) # 0
               \/ Len(activeCompilers) < maxCompilers) =>
               /\ engine' = engine
               /\ closeCallbacks' = closeCallbacks
               /\ activeCompilers' = activeCompilers
               /\ mc' = mc
               /\ req'[r].pc = "build" /\ req'[r].result = "none"
      ]_vars

\* the decision was taken for a target that is active while more compilers
\* are active than maxCompilers allows, and no close was started
C30_Witness ==
    /\ req[1].pc = "build"
    /\ maxCompilers > 0
    /\ Len(activeCompilers) > maxCompilers
    /\ KeyIndex(activeCompilers, req[1].config) # 0
    /\ closeCallbacks = {}
    /\ \A id \in DOMAIN engine : engine[id].closeCalls = 0

\* C31: with maxCompilers > 0, a target that is not active and at least
\* maxCompilers active compilers, closeCompilersIfNeeded issues exactly one
\* watching.close(), on the compiler named by options.compilerToEvict after
\* the compilerClose hook (the result of getLeastUsedCompiler unless a tap
\* replaced it), and the request goes on to buildConfig, where the compiler
\* of the target is created and registered, only once the callback of that
\* close has run.
C31_EvictThenBuild ==
    [][/\ \A r \in DOMAIN req, c \in ConfigNames, impl \in SortImpls,
             replaced \in HookChoices :
              (/\ closeCompilersIfNeededHooked(r, c, impl, replaced)
               /\ maxCompilers > 0
               /\ KeyIndex(activeCompilers, c) = 0
               /\ Len(activeCompilers) >= maxCompilers) =>
                  LET victim == IF replaced = NULL
                                THEN getLeastUsedCompiler(activeCompilers, mc, now,
                                                          useFrequency, impl)
                                ELSE replaced
                  IN /\ Cardinality(closeCallbacks' \ closeCallbacks) = 1
                     /\ \A cb \in closeCallbacks' \ closeCallbacks :
                            cb.name = victim /\ cb.req = r
                     /\ \E id \in DOMAIN engine :
                            /\ mc[id].name = victim
                            /\ engine'[id].closeCalls = engine[id].closeCalls + 1
                            /\ \A j \in DOMAIN engine \ {id} : engine'[j] = engine[j]
                     /\ req'[r].pc = "closing"
       /\ \A r \in DOMAIN req :
              req[r].pc = "closing" /\ req'[r] # req[r] =>
                  /\ req'[r].pc = "build"
                  /\ \E cb \in closeCallbacks : cb.req = r /\ closeCallback(cb)
       /\ \A r \in DOMAIN req :
              buildConfig(r) /\ Len(mc') > Len(mc) =>
                  ~\E cb \in closeCallbacks : cb.req = r
      ]_vars

\* C32: getFrequency() on an unpinned compiler with at least one sample
\* removes every sample older than FREQUENCY_RANGE minutes from the front of
\* frequencyChecks and returns the number of samples of the last
\* FREQUENCY_RANGE minutes divided by FREQUENCY_RANGE; afterwards no sample
\* left is older than the window; without samples it returns 0.  (The call
\* is the one getInfoForCompiler makes for every active compiler.)
C32_FrequencyPrunesWindow ==
    [][\A targetNames \in TargetSets, impl \in SortImpls :
           callGetAllCompilerInfo(targetNames, impl) =>
               \A i \in DOMAIN activeCompilers :
                   LET id == activeCompilers[i].id
                       c == mc[id]
                       frequencyWindow == now - FREQUENCY_RANGE * MS_PER_MINUTE
                       recent == SelectSeq(c.frequencyChecks,
                                           LAMBDA sample : sample >= frequencyWindow)
                   IN ~c.pinned =>
                          IF c.frequencyChecks = <<>>
                          THEN getFrequency(c, now) = 0
                          ELSE /\ getFrequency(c, now) = Len(recent)
                               /\ mc'[id].frequencyChecks = recent
                               /\ \A k \in DOMAIN mc'[id].frequencyChecks :
                                      mc'[id].frequencyChecks[k] >= frequencyWindow
      ]_vars

C34_ReadsAreTotal ==
    ret.op \in {"getAllBuildStatuses", "getInfoForCompiler", "getAllCompilerInfo"} =>
        ret.val # "TypeError"

\* C35: a done-with-errors or a failed signal of one compiler leaves the
\* status, lastErrors, usage data and callbacks of every other compiler and
\* the names of the pool as they were, and the failing compiler stays in
\* the pool, with status error.
C35_ErrorsStayLocal ==
    [][\A id \in DOMAIN mc :
           (\/ \E errors \in BuildErrorLists : hookDone(id, errors)
            \/ \E e \in ErrorValues : hookFailed(id, e)) =>
               /\ \A j \in DOMAIN mc \ {id} : mc'[j] = mc[j]
               /\ activeCompilers' = activeCompilers
               /\ engine' = engine
               /\ mc'[id].status = ERROR
               /\ \E i \in DOMAIN activeCompilers' : activeCompilers'[i].id = id
      ]_vars

\* the second compiler has failed while the first one, done, still holds a
\* waiting callback
C35_Witness ==
    /\ Len(activeCompilers) >= 2
    /\ mc[2].status = ERROR /\ mc[2].lastErrors # <<>>
    /\ mc[1].status = BUILDING /\ mc[1].callbacks # <<>>

C37_FirstBuildOnlyAtConstruction ==
    [][/\ \A id \in DOMAIN mc :
              mc[id].status # FIRST_BUILD => mc'[id].status # FIRST_BUILD
       /\ \A id \in DOMAIN mc' :
              mc'[id].status \in {FIRST_BUILD, BUILDING, ERROR, DONE}
      ]_vars

\* a compiler that failed its first build has been invalidated by a request
\* and is building
C37_Witness ==
    /\ mc # <<>>
    /\ mc[1].status = BUILDING
    /\ engine[1].invalidateCalls = 1
    /\ mc[1].callbacks # <<>>

\* C38: a setStatus call that throws because the status is not one of the
\* four leaves the compiler as it was: status, lastErrors, callbacks and
\* usage data are unchanged, through CompilerManager.setStatus(name, ...) as
\* through the setStatus of the compiler it delegates to.
C38_FailedSetStatusChangesNothing ==
    [][\A name \in MgrNames, status \in StatusInputs, errors \in ErrorInputs :
           (/\ callSetStatus(name, status, errors)
            /\ isCompilerActive(activeCompilers, name)
            /\ status \notin {FIRST_BUILD, BUILDING, ERROR, DONE}) =>
               /\ ret'.val = "threw"
               /\ mc' = mc
               /\ activeCompilers' = activeCompilers
      ]_vars

\* setStatus has thrown on a compiler that is in error with stored errors
C38_Witness ==
    /\ ret.op = "setStatus" /\ ret.val = "threw"
    /\ isCompilerActive(activeCompilers, ret.arg)
    /\ mc[Lookup(activeCompilers, ret.arg)].status = ERROR
    /\ mc[Lookup(activeCompilers, ret.arg)].lastErrors # <<>>

\* C39: buildConfig for an active compiler in error calls
\* watching.invalidate() once, sets the status to building and adds the
\* caller to the callbacks; buildConfig for a building compiler only adds
\* the caller, so the requests that arrive between a failed build and the
\* end of the rebuild cause one invalidate; and no callback is added, nor
\* held, while the status is first-build or done.
C39_OneInvalidatePerRebuild ==
    [][/\ \A r \in DOMAIN req, name \in MgrNames :
              (/\ configManagerBuildConfig(r, name)
               /\ isCompilerActive(activeCompilers, name)) =>
                  LET id == Lookup(activeCompilers, name) IN
                  /\ mc[id].status = ERROR =>
                         /\ engine'[id].invalidateCalls = engine[id].invalidateCalls + 1
                         /\ mc'[id].status = BUILDING
                         /\ mc'[id].callbacks = Append(mc[id].callbacks, r)
                  /\ mc[id].status = BUILDING =>
                         /\ engine' = engine
                         /\ mc'[id].status = BUILDING
                         /\ mc'[id].callbacks = Append(mc[id].callbacks, r)
                  /\ mc[id].status \in {FIRST_BUILD, DONE} =>
                         /\ engine' = engine
                         /\ mc'[id].status = mc[id].status
                         /\ mc'[id].callbacks = mc[id].callbacks
       /\ \A id \in DOMAIN mc' :
              mc'[id].status \in {FIRST_BUILD, DONE} => mc'[id].callbacks = <<>>
      ]_vars

\* two requests wait for the rebuild of a compiler that was invalidated once
C39_Witness ==
    /\ mc # <<>>
    /\ mc[1].status = BUILDING
    /\ Len(mc[1].callbacks) = 2
    /\ engine[1].invalidateCalls = 1

\* C40: a signal or a watch-callback error of an engine whose compiler is no
\* longer in the pool never changes the status, lastErrors or callbacks of
\* a newer compiler registered under the same name.
C40_LateSignalsSpareNewCompiler ==
    [][\A id \in DOMAIN engine :
           (/\ ~\E i \in DOMAIN activeCompilers : activeCompilers[i].id = id
            /\ \/ hookNewCompilation(id)
               \/ \E errors \in BuildErrorLists \cup {<<>>} : hookDone(id, errors)
               \/ \E e \in ErrorValues : hookFailed(id, e)
               \/ hookWatchClose(id)
               \/ \E e \in ErrorValues : watchHandler(id, e)) =>
               \A i \in DOMAIN activeCompilers :
                   LET j == activeCompilers[i].id IN
                   (j > id /\ mc[j].name = mc[id].name) =>
                       /\ mc'[j].status = mc[j].status
                       /\ mc'[j].lastErrors = mc[j].lastErrors
                       /\ mc'[j].callbacks = mc[j].callbacks
      ]_vars

====
